---- MODULE Spec2Model ----
(***************************************************************************)
(* A model of godbms: the copy-on-write B-tree over 4096-byte pages        *)
(* (internal/btree) and the commit protocol of the key-value store         *)
(* (internal/io).                                                          *)
(*                                                                         *)
(* A BNode is the byte buffer itself: a sequence of bytes, TLA+ index p+1  *)
(* for the Go index p.  Every uint16 keeps its width (% W16).  A Go panic  *)
(* (a failed assert, an index out of range, a fatal page-store error) is   *)
(* the buffer PANIC for an operation that returns a buffer, and a negative *)
(* number for one that returns a uint16; both propagate to the caller, as  *)
(* the panic does (no function of the repository recovers).                *)
(*                                                                         *)
(* A Go function whose body uses an intermediate value several times is    *)
(* written as a chain of operators, the value passed on as a parameter:    *)
(* f computes the first value and hands it to fXxx, the rest of the body.  *)
(***************************************************************************)
EXTENDS Integers, Sequences, FiniteSets, TLC

BNODE_NODE == 1
BNODE_LEAF == 2
BTREE_PAGE_SIZE == 4096
BTREE_MAX_KEY_SIZE == 1000
BTREE_MAX_VAL_SIZE == 3000
HEADER == 4
\* the width of uint16
W16 == 65536

PANIC == << 0 - 1 >>
IsPanic(b) == Len(b) = 1 /\ b[1] < 0
Zeros(n) == [i \in 1..n |-> 0]

(***************************************************************************)
(* encoding/binary and the built-in copy                                   *)
(***************************************************************************)
\* binary.LittleEndian.Uint16(b[pos:])
U16(b, pos) ==
    IF pos < 0 \/ pos + 2 > Len(b) THEN 0 - 1
    ELSE b[pos + 1] + 256 * b[pos + 2]

\* binary.LittleEndian.PutUint16(b[pos:], v)
PutU16(b, pos, v) ==
    IF pos < 0 \/ v < 0 \/ pos + 2 > Len(b) THEN PANIC
    ELSE [b EXCEPT ![pos + 1] = v % 256, ![pos + 2] = v \div 256]

\* copy(b[pos:], src): copies min(len(src), len(b) - pos) bytes
Copy(b, pos, src) ==
    IF pos < 0 \/ pos > Len(b) \/ IsPanic(b) \/ IsPanic(src) THEN PANIC
    ELSE [i \in 1..Len(b) |->
            IF i > pos /\ i <= pos + Len(src) THEN src[i - pos] ELSE b[i]]

\* b[pos:][:n]
Slice(b, pos, n) ==
    IF pos < 0 \/ n < 0 \/ pos + n > Len(b) \/ IsPanic(b) THEN PANIC
    ELSE [i \in 1..n |-> b[pos + i]]

\* bytes.Compare
RECURSIVE CompareFrom(_, _, _)
CompareFrom(a, b, i) ==
    IF i > Len(a) /\ i > Len(b) THEN 0
    ELSE IF i > Len(a) THEN 0 - 1
    ELSE IF i > Len(b) THEN 1
    ELSE IF a[i] < b[i] THEN 0 - 1
    ELSE IF a[i] > b[i] THEN 1
    ELSE CompareFrom(a, b, i + 1)

Compare(a, b) == CompareFrom(a, b, 1)

(***************************************************************************)
(* bnode.go: the page codec.  fN is f with node.nkeys() already read (n).  *)
(***************************************************************************)
btype(node) == U16(node, 0)

nkeys(node) == U16(node, 2)

setHeader(node, ty, n) == PutU16(PutU16(node, 0, ty), 2, n)

getPtr(node, idx) ==
    IF idx < 0 \/ ~(idx < nkeys(node)) THEN 0 - 1
    ELSE U16(node, (4 + 8 * idx) % W16)

setPtr(node, idx, val) ==
    IF idx < 0 \/ ~(idx < nkeys(node)) THEN PANIC
    ELSE PutU16(node, (4 + 8 * idx) % W16, val)

getOffsetN(node, n, idx) ==
    IF idx < 0 THEN 0 - 1
    ELSE IF idx = 0 THEN 0
    ELSE IF n < 0 THEN 0 - 1
    ELSE U16(node, (4 + 8 * n + 2 * (idx - 1)) % W16)

getOffset(node, idx) == getOffsetN(node, nkeys(node), idx)

offsetPosN(n, idx) ==
    IF ~(1 <= idx /\ idx <= n) THEN 0 - 1
    ELSE (4 + 8 * n + 2 * (idx - 1)) % W16

offsetPos(node, idx) == offsetPosN(nkeys(node), idx)

setOffset(node, idx, offset) == PutU16(node, offsetPos(node, idx), offset)

\* 4 + 8*n + 2*n + off, in uint16
kvPosAt(n, off) == IF off < 0 THEN 0 - 1 ELSE (4 + 8 * n + 2 * n + off) % W16

kvPosN(node, n, idx) ==
    IF idx < 0 \/ ~(idx <= n) THEN 0 - 1
    ELSE kvPosAt(n, getOffsetN(node, n, idx))

kvPos(node, idx) == kvPosN(node, nkeys(node), idx)

getKeyAt(node, pos) ==
    IF pos < 0 THEN PANIC ELSE Slice(node, (pos + 4) % W16, U16(node, pos))

getKeyN(node, n, idx) ==
    IF idx < 0 \/ ~(idx < n) THEN PANIC ELSE getKeyAt(node, kvPosN(node, n, idx))

getKey(node, idx) == getKeyN(node, nkeys(node), idx)

getValueAt(node, pos, kLen) ==
    IF pos < 0 \/ kLen < 0 THEN PANIC
    ELSE Slice(node, (pos + 4 + kLen) % W16, U16(node, (pos + 2) % W16))

getValuePos(node, pos) == getValueAt(node, pos, U16(node, pos))

getValueN(node, n, idx) ==
    IF idx < 0 \/ ~(idx < n) THEN PANIC ELSE getValuePos(node, kvPosN(node, n, idx))

getValue(node, idx) == getValueN(node, nkeys(node), idx)

\* new.setOffset(idx, new.getOffset(idx) + 4 + uint16(len(key) + len(val)))
nextOffset(off, kv) == IF off < 0 THEN 0 - 1 ELSE (off + 4 + kv) % W16

nodeAppendKVOffset(new, idx, kv) ==
    setOffset(new, idx, nextOffset(getOffset(new, idx), kv))

\* the sizes (both len(key)), the key and the value at pos, then the offset
nodeAppendKVAt(new, pos, idx, key, val) ==
    IF pos < 0 THEN PANIC
    ELSE nodeAppendKVOffset(
             Copy(Copy(PutU16(PutU16(new, pos, Len(key) % W16),
                              (pos + 2) % W16, Len(key) % W16),
                       (pos + 4) % W16, key),
                  (pos + 4 + (Len(key) % W16)) % W16, val),
             idx, (Len(key) + Len(val)) % W16)

nodeAppendKVPos(new, idx, key, val) ==
    nodeAppendKVAt(new, kvPos(new, idx), idx, key, val)

\* ptr is the uint16 the caller passes
nodeAppendKV(new, idx, ptr, key, val) ==
    IF ptr < 0 \/ IsPanic(key) \/ IsPanic(val) THEN PANIC
    ELSE nodeAppendKVPos(setPtr(new, idx, ptr), idx, key, val)

nbytes(node) == kvPos(node, nkeys(node))

RECURSIVE nodeAppendRangeFrom(_, _, _, _, _, _)
nodeAppendRangeFrom(new, old, dstNew, srcOld, n, i) ==
    IF IsPanic(new) \/ n < 0 THEN PANIC
    ELSE IF ~(i < n) THEN new
    ELSE nodeAppendRangeFrom(
             nodeAppendKV(new, (dstNew + i) % W16, getPtr(old, (srcOld + i) % W16),
                          getKey(old, (srcOld + i) % W16),
                          getValue(old, (srcOld + i) % W16)),
             old, dstNew, srcOld, n, i + 1)

nodeAppendRange(new, old, dstNew, srcOld, n) ==
    nodeAppendRangeFrom(new, old, dstNew, srcOld, n, 0)

leafInsert(new, old, idx, key, val) ==
    IF nkeys(old) < 0 THEN PANIC
    ELSE nodeAppendRange(
             nodeAppendKV(
                 nodeAppendRange(setHeader(new, BNODE_LEAF, (nkeys(old) + 1) % W16),
                                 old, 0, 0, idx),
                 idx, 0, key, val),
             old, (idx + 1) % W16, idx, (nkeys(old) - idx) % W16)

leafUpdate(new, old, idx, key, val) ==
    IF nkeys(old) < 0 THEN PANIC
    ELSE nodeAppendRange(
             nodeAppendKV(
                 nodeAppendRange(setHeader(new, BNODE_LEAF, nkeys(old)), old, 0, 0, idx),
                 idx, 0, key, val),
             old, (idx + 1) % W16, (idx + 1) % W16, (nkeys(old) - (idx + 1)) % W16)

\* the uint16 result, 65535 for i - 1 at i = 0; negative for a panic
RECURSIVE nodeLookupLEFrom(_, _, _, _)
\* the lookup answering 0 where i - 1 wraps
nodeLookupLECmpClamped(node, key, n, i, k) ==
    IF IsPanic(k) THEN 0 - 1
    ELSE IF k = key THEN i
    ELSE IF Compare(k, key) > 0 THEN (IF i = 0 THEN 0 ELSE i - 1)
    ELSE nodeLookupLEFrom(node, key, n, i + 1)

nodeLookupLECmp(node, key, n, i, k) ==
    IF IsPanic(k) THEN 0 - 1
    ELSE IF k = key THEN i
    ELSE IF Compare(k, key) > 0 THEN (i - 1) % W16
    ELSE nodeLookupLEFrom(node, key, n, i + 1)

nodeLookupLEFrom(node, key, n, i) ==
    IF n < 0 THEN 0 - 1
    ELSE IF ~(i < n) THEN (i - 1) % W16
    ELSE nodeLookupLECmp(node, key, n, i, getKeyN(node, n, i))

nodeLookupLE(node, key) == nodeLookupLEFrom(node, key, nkeys(node), 0)

\* left_bytes(), for the current nleft
leftBytes(old, nleft) ==
    IF nleft < 0 THEN 0 - 1 ELSE kvPosAt(nleft, getOffset(old, nleft))

\* for left_bytes() > BTREE_PAGE_SIZE { nleft-- }
RECURSIVE shrinkLeft(_, _)
shrinkLeftStep(old, nleft, lb) ==
    IF lb < 0 THEN 0 - 1
    ELSE IF lb > BTREE_PAGE_SIZE THEN shrinkLeft(old, (nleft - 1) % W16)
    ELSE nleft

shrinkLeft(old, nleft) == shrinkLeftStep(old, nleft, leftBytes(old, nleft))

\* right_bytes(), for the current nleft
rightBytesOf(nb, lb) == IF nb < 0 \/ lb < 0 THEN 0 - 1 ELSE (nb - lb + 4) % W16

rightBytes(old, nleft) == rightBytesOf(nbytes(old), leftBytes(old, nleft))

\* for right_bytes() > BTREE_PAGE_SIZE { nleft++ }
RECURSIVE growLeft(_, _)
growLeftStep(old, nleft, rb) ==
    IF rb < 0 THEN 0 - 1
    ELSE IF rb > BTREE_PAGE_SIZE THEN growLeft(old, (nleft + 1) % W16)
    ELSE nleft

growLeft(old, nleft) == growLeftStep(old, nleft, rightBytes(old, nleft))

\* the two buffers as nodeSplit2 leaves them; ok = FALSE for a panic
Split2Panic == [ok |-> FALSE, left |-> PANIC, right |-> PANIC]

nodeSplit2Done(l, r) ==
    IF IsPanic(l) \/ IsPanic(r) THEN Split2Panic
    ELSE IF ~(nbytes(r) >= 0 /\ nbytes(r) <= BTREE_PAGE_SIZE) THEN Split2Panic
    ELSE [ok |-> TRUE, left |-> l, right |-> r]

nodeSplit2At(left, right, old, n, nleft) ==
    IF nleft < 0 \/ ~(nleft < n) THEN Split2Panic
    ELSE nodeSplit2Done(
             nodeAppendRange(setHeader(left, btype(old), nleft), old, 0, 0, nleft),
             nodeAppendRange(setHeader(right, btype(old), n - nleft), old, 0, nleft,
                             n - nleft))

nodeSplit2Left(left, right, old, n, nleft) ==
    IF ~(nleft >= 1) THEN Split2Panic
    ELSE nodeSplit2At(left, right, old, n, growLeft(old, nleft))

nodeSplit2N(left, right, old, n) ==
    IF ~(n >= 2) THEN Split2Panic
    ELSE nodeSplit2Left(left, right, old, n, shrinkLeft(old, n \div 2))

nodeSplit2(left, right, old) == nodeSplit2N(left, right, old, nkeys(old))

\* n = the number of nodes (0 - 1 for a panic), nodes = split[:n]
Split3Panic == [n |-> 0 - 1, nodes |-> << >>]

nodeSplit3Three(s, right) ==
    IF ~s.ok THEN Split3Panic
    ELSE IF ~(nbytes(s.left) <= BTREE_PAGE_SIZE) THEN Split3Panic
    ELSE [n |-> 3, nodes |-> << s.left, s.right, right >>]

nodeSplit3Two(s) ==
    IF ~s.ok THEN Split3Panic
    ELSE IF nbytes(s.left) <= BTREE_PAGE_SIZE
         THEN [n |-> 2, nodes |-> << Slice(s.left, 0, BTREE_PAGE_SIZE), s.right >>]
    ELSE nodeSplit3Three(
             nodeSplit2(Zeros(BTREE_PAGE_SIZE), Zeros(BTREE_PAGE_SIZE), s.left), s.right)

nodeSplit3One(old) ==
    IF IsPanic(old) THEN Split3Panic ELSE [n |-> 1, nodes |-> << old >>]

nodeSplit3N(old, nb) ==
    IF nb < 0 THEN Split3Panic
    ELSE IF nb <= BTREE_PAGE_SIZE THEN nodeSplit3One(Slice(old, 0, BTREE_PAGE_SIZE))
    ELSE nodeSplit3Two(
             nodeSplit2(Zeros(2 * BTREE_PAGE_SIZE), Zeros(BTREE_PAGE_SIZE), old))

nodeSplit3(old) == nodeSplit3N(old, nbytes(old))

\* TRUE for the error
checkLimit(key, value) ==
    Len(key) >= BTREE_MAX_KEY_SIZE /\ Len(value) >= BTREE_MAX_VAL_SIZE

(***************************************************************************)
(* The page store behind BTree.get, BTree.new and BTree.del.  A tree value *)
(* t holds the BTree's root and the store: pages (page ID -> buffer),      *)
(* nextId (the ID the next allocate returns), freed (the IDs passed to     *)
(* free, in order) and sizes (nbytes of every node passed to allocate).    *)
(* The store keeps a buffer as its length and its bytes up to nbytes()     *)
(* when every byte after them is zero, and as it is otherwise; get returns *)
(* the buffer byte for byte.  get of an ID that holds no page is fatal.    *)
(***************************************************************************)
PackN(b, n) ==
    IF n >= 0 /\ n <= Len(b) /\ \A i \in (n + 1)..Len(b) : b[i] = 0
    THEN [len |-> Len(b), data |-> [i \in 1..n |-> b[i]]]
    ELSE [len |-> Len(b), data |-> b]

Pack(b) == PackN(b, nbytes(b))

Unpack(p) == [i \in 1..p.len |-> IF i <= Len(p.data) THEN p.data[i] ELSE 0]

StoreGet(t, id) == IF id \in DOMAIN t.pages THEN Unpack(t.pages[id]) ELSE PANIC

StoreNew(t, node) ==
    [t EXCEPT !.pages = [p \in DOMAIN t.pages \cup {t.nextId} |->
                            IF p = t.nextId THEN Pack(node) ELSE t.pages[p]],
              !.nextId = t.nextId + 1,
              !.sizes = t.sizes \cup {nbytes(node)}]

StoreDel(t, id) ==
    [t EXCEPT !.pages = [p \in DOMAIN t.pages \ {id} |-> t.pages[p]],
              !.freed = Append(t.freed, id)]

Panicked(t) == [t |-> t, node |-> PANIC]

(***************************************************************************)
(* The B-tree controller.  An operation on the tree returns the tree value *)
(* it leaves and its result; a panic keeps what the store held when it was *)
(* raised.                                                                 *)
(***************************************************************************)
\* for i, node := range kids { nodeAppendKV(new, idx+i, uint16(tree.new(node)), node.getKey(0), nil) }
\* tree.new runs before nodeAppendKV is entered
RECURSIVE replaceKids(_, _, _, _, _)
replaceKids(t, new, idx, kids, i) ==
    IF IsPanic(new) THEN Panicked(t)
    ELSE IF i > Len(kids) THEN [t |-> t, node |-> new]
    ELSE replaceKids(StoreNew(t, kids[i]),
                     nodeAppendKV(new, (idx + (i - 1)) % W16, t.nextId % W16,
                                  getKey(kids[i], 0), << >>),
                     idx, kids, i + 1)

\* nodeAppendRange(new, old, idx+inc, idx+1, old.nkeys()-(idx+1)), after the kids
nodeReplaceKidNRest(old, idx, inc, r) ==
    IF IsPanic(r.node) THEN r
    ELSE [t |-> r.t,
          node |-> nodeAppendRange(r.node, old, (idx + inc) % W16, (idx + 1) % W16,
                                   (nkeys(old) - (idx + 1)) % W16)]

nodeReplaceKidN(t, new, old, idx, kids) ==
    IF nkeys(old) < 0 THEN Panicked(t)
    ELSE nodeReplaceKidNRest(old, idx, Len(kids),
             replaceKids(t,
                 nodeAppendRange(
                     setHeader(new, BNODE_NODE, (nkeys(old) + Len(kids) - 1) % W16),
                     old, 0, 0, idx),
                 idx, kids, 1))

RECURSIVE treeInsert(_, _, _, _)

\* nodeReplaceKidN(tree, new, node, idx, split[:nsplit]...), after tree.del(kptr)
treeInsertLink(t, node, idx, kptr, s) ==
    IF s.n < 0 THEN Panicked(t)
    ELSE nodeReplaceKidN(StoreDel(t, kptr), Zeros(2 * BTREE_PAGE_SIZE), node, idx, s.nodes)

\* k: the recursive treeInsert's tree and knode
treeInsertSplit(node, idx, kptr, k) ==
    IF IsPanic(k.node) THEN k
    ELSE treeInsertLink(k.t, node, idx, kptr, nodeSplit3(k.node))

treeInsertKid(t, node, key, val, idx, kptr) ==
    IF kptr < 0 THEN Panicked(t)
    ELSE treeInsertSplit(node, idx, kptr, treeInsert(t, StoreGet(t, kptr), key, val))

\* k = node.getKey(idx)
treeInsertLeaf(t, node, key, val, idx, k) ==
    IF IsPanic(k) THEN Panicked(t)
    ELSE IF key = k
         THEN [t |-> t, node |-> leafUpdate(Zeros(2 * BTREE_PAGE_SIZE), node, idx, key, val)]
    ELSE [t |-> t,
          node |-> leafInsert(Zeros(2 * BTREE_PAGE_SIZE), node, (idx + 1) % W16, key, val)]

treeInsertAt(t, node, key, val, idx) ==
    IF idx < 0 THEN Panicked(t)
    ELSE IF btype(node) = BNODE_LEAF
         THEN treeInsertLeaf(t, node, key, val, idx, getKey(node, idx))
    ELSE IF btype(node) = BNODE_NODE
         THEN treeInsertKid(t, node, key, val, idx, getPtr(node, idx))
    ELSE Panicked(t)

treeInsert(t, node, key, val) ==
    IF IsPanic(node) THEN Panicked(t)
    ELSE treeInsertAt(t, node, key, val, nodeLookupLE(node, key))

\* for i, knode := range split[:nsplit] {
\*     ptr, key := tree.new(knode), knode.getKey(0)
\*     nodeAppendKV(knode, uint16(i), uint16(ptr), key, nil) }
\* knode is the buffer the store was handed, and key a slice of it: the append
\* writes into the allocated page, and copies the key from what the buffer holds
\* when the copy runs.  kpos = knode.kvPos(0), kl = len(key).
\* appendToPiece: knode after the pointer, the sizes and the key are written
\* (bnode.go:116-127), before the offset is (bnode.go:130).
appendToPieceAt(knode, pos, kpos, kl) ==
    IF pos < 0 \/ kl < 0 THEN PANIC
    ELSE Copy(PutU16(PutU16(knode, pos, kl), (pos + 2) % W16, kl), (pos + 4) % W16,
              Slice(PutU16(PutU16(knode, pos, kl), (pos + 2) % W16, kl),
                    (kpos + 4) % W16, kl))

appendToPiecePos(knode, idx, kpos, kl) ==
    appendToPieceAt(knode, kvPos(knode, idx), kpos, kl)

appendToPieceKey(knode, idx, ptr, kpos) ==
    appendToPiecePos(setPtr(knode, idx, ptr), idx, kpos, U16(knode, kpos))

appendToPiece(knode, idx, ptr) ==
    IF IsPanic(getKey(knode, 0)) THEN PANIC
    ELSE appendToPieceKey(knode, idx, ptr, kvPos(knode, 0))

RECURSIVE rootPieces(_, _, _)
\* piece: knode after the offset is written; a panic there leaves what was written
rootPiecesOffset(t, piece, id, split, i) ==
    IF IsPanic(piece) THEN Panicked(t)
    ELSE rootPieces([t EXCEPT !.pages[id] = Pack(piece)], split, i + 1)

\* w = appendToPiece(knode, i, ptr), written into the page id
rootPiecesNext(t, id, w, split, i) ==
    IF IsPanic(w) THEN Panicked(t)
    ELSE rootPiecesOffset([t EXCEPT !.pages[id] = Pack(w)],
                          nodeAppendKVOffset(w, i - 1, Len(getKey(split[i], 0)) % W16),
                          id, split, i)

rootPieces(t, split, i) ==
    IF i > Len(split) THEN [t |-> t, node |-> << >>]
    ELSE rootPiecesNext(StoreNew(t, split[i]), t.nextId,
                        appendToPiece(split[i], i - 1, t.nextId % W16), split, i)

\* res: "ok" (nil), "err" (the checkLimit error) or "panic"
InsertNewRoot(p, nsplit) ==
    IF IsPanic(p.node) THEN [t |-> p.t, res |-> "panic"]
    ELSE [t |-> [StoreNew(p.t, setHeader(Zeros(BTREE_PAGE_SIZE), BNODE_NODE, nsplit))
                    EXCEPT !.root = p.t.nextId],
          res |-> "ok"]

InsertOneRoot(t, node) ==
    [t |-> [StoreNew(t, node) EXCEPT !.root = t.nextId], res |-> "ok"]

\* s = nodeSplit3(node)
InsertSplit(t, oldRoot, s) ==
    IF s.n < 0 THEN [t |-> t, res |-> "panic"]
    ELSE IF s.n > 1 THEN InsertNewRoot(rootPieces(StoreDel(t, oldRoot), s.nodes, 1), s.n)
    ELSE InsertOneRoot(StoreDel(t, oldRoot), s.nodes[1])

\* r = treeInsert(tree, tree.get(tree.root), key, value)
InsertTree(oldRoot, r) ==
    IF IsPanic(r.node) THEN [t |-> r.t, res |-> "panic"]
    ELSE InsertSplit(r.t, oldRoot, nodeSplit3(r.node))

InsertEmpty(t, root) ==
    IF IsPanic(root) THEN [t |-> t, res |-> "panic"]
    ELSE [t |-> [StoreNew(t, root) EXCEPT !.root = t.nextId], res |-> "ok"]

Insert(t, key, value) ==
    IF checkLimit(key, value) THEN [t |-> t, res |-> "err"]
    ELSE IF t.root = 0
         THEN InsertEmpty(t,
                  nodeAppendKV(
                      nodeAppendKV(setHeader(Zeros(BTREE_PAGE_SIZE), BNODE_LEAF, 2),
                                   0, 0, << >>, << >>),
                      0, 1, key, value))
    ELSE InsertTree(t.root, treeInsert(t, StoreGet(t, t.root), key, value))

\* dir = -1, 0, +1 and the sibling (<< >> for BNode{}); dir = 2 for a panic
MergeNone == [dir |-> 0, sibling |-> << >>]
MergePanic == [dir |-> 2, sibling |-> PANIC]

\* ub = updated.nbytes()
shouldMergeRightWith(ub, sibling) ==
    IF btype(sibling) < 0 THEN MergePanic
    ELSE IF (btype(sibling) + ub - HEADER) % W16 <= BTREE_PAGE_SIZE
         THEN [dir |-> 1, sibling |-> sibling]
    ELSE MergeNone

shouldMergeRight(t, node, idx, ub) ==
    IF nkeys(node) < 0 THEN MergePanic
    ELSE IF (idx + 1) % W16 < nkeys(node)
         THEN shouldMergeRightWith(ub, StoreGet(t, getPtr(node, (idx + 1) % W16)))
    ELSE MergeNone

\* the left sibling taken whatever the merged size
shouldMergeLeftAlways(t, node, idx, ub, sibling) ==
    IF nbytes(sibling) < 0 THEN MergePanic
    ELSE [dir |-> 0 - 1, sibling |-> sibling]

shouldMergeLeftWith(t, node, idx, ub, sibling) ==
    IF nbytes(sibling) < 0 THEN MergePanic
    ELSE IF (nbytes(sibling) + ub - HEADER) % W16 <= BTREE_PAGE_SIZE
         THEN [dir |-> 0 - 1, sibling |-> sibling]
    ELSE shouldMergeRight(t, node, idx, ub)

shouldMergeN(t, node, idx, ub) ==
    IF ub < 0 THEN MergePanic
    ELSE IF ub > BTREE_PAGE_SIZE \div 4 THEN MergeNone
    ELSE IF idx > 0
         THEN shouldMergeLeftWith(t, node, idx, ub,
                                  StoreGet(t, getPtr(node, (idx - 1) % W16)))
    ELSE shouldMergeRight(t, node, idx, ub)

shouldMerge(t, node, idx, updated) == shouldMergeN(t, node, idx, nbytes(updated))

(***************************************************************************)
(* The functions bnode.go and the controller declare without a body        *)
(* (leafDelete, nodeMerge, nodeReplace2Kid, treeDelete, BTree.Delete) and  *)
(* the read path, written from the design document: they read a node with  *)
(* the codec's getters and write the documented node format.               *)
(***************************************************************************)
\* the entries of a node, slot i at index i + 1
Entries(node) ==
    [i \in 1..nkeys(node) |->
        [ptr |-> getPtr(node, i - 1), key |-> getKey(node, i - 1),
         val |-> getValue(node, i - 1)]]

\* an 8-byte little-endian page ID at pos (the model's page IDs are below 2^24)
Put64(b, pos, v) ==
    [i \in 1..Len(b) |->
        IF i > pos /\ i <= pos + 8
        THEN IF i - pos = 1 THEN v % 256
             ELSE IF i - pos = 2 THEN (v \div 256) % 256
             ELSE IF i - pos = 3 THEN (v \div W16) % 256
             ELSE 0
        ELSE b[i]]

\* the entry e at pos, and offsets[idx + 1]; off = offsets[idx]
EncAppendAt(b, pos, off, idx, e) ==
    setOffset(Copy(Copy(PutU16(PutU16(b, pos, Len(e.key)), pos + 2, Len(e.val)),
                        pos + 4, e.key),
                   pos + 4 + Len(e.key), e.val),
              idx + 1, off + 4 + Len(e.key) + Len(e.val))

EncAppend(b, idx, e) ==
    EncAppendAt(Put64(b, 4 + 8 * idx, e.ptr), kvPos(b, idx), getOffset(b, idx), idx, e)

RECURSIVE EncodeFrom(_, _, _)
EncodeFrom(b, es, i) ==
    IF i > Len(es) THEN b ELSE EncodeFrom(EncAppend(b, i - 1, es[i]), es, i + 1)

\* a buffer of size bytes holding the node of type ty with the entries es
EncodeN(size, ty, es) == EncodeFrom(setHeader(Zeros(size), ty, Len(es)), es, 1)

\* a page holding it
Encode(ty, es) == EncodeN(BTREE_PAGE_SIZE, ty, es)

\* es without its entry at slot idx
Without(es, idx) ==
    [i \in 1..(Len(es) - 1) |-> IF i <= idx THEN es[i] ELSE es[i + 1]]

\* es with the entries at slots idx and idx + 1 replaced by e
Replace2(es, idx, e) ==
    [i \in 1..(Len(es) - 1) |->
        IF i <= idx THEN es[i] ELSE IF i = idx + 1 THEN e ELSE es[i + 1]]

Concat(l, r) ==
    [i \in 1..(Len(l) + Len(r)) |-> IF i <= Len(l) THEN l[i] ELSE r[i - Len(l)]]

leafDelete(new, old, idx) == Encode(BNODE_LEAF, Without(Entries(old), idx))

nodeMerge(new, left, right) == Encode(btype(left), Concat(Entries(left), Entries(right)))

\* the two kids at idx and idx + 1 replaced by the one kid ptr
nodeReplace2Kid(new, old, idx, ptr, key) ==
    Encode(BNODE_NODE, Replace2(Entries(old), idx, [ptr |-> ptr, key |-> key, val |-> << >>]))

RECURSIVE treeDelete(_, _, _)

\* nodeReplace2Kid(new, node, at, tree.new(merged), merged.getKey(0))
nodeDeleteLink(t, node, at, merged) ==
    [t |-> StoreNew(t, merged),
     node |-> nodeReplace2Kid(Zeros(BTREE_PAGE_SIZE), node, at, t.nextId, getKey(merged, 0))]

\* merged: what nodeMerge left; then tree.del(sibling's pointer)
nodeDeleteMerged(t, node, at, sptr, merged) ==
    IF IsPanic(merged) \/ sptr < 0 THEN Panicked(t)
    ELSE nodeDeleteLink(StoreDel(t, sptr), node, at, merged)

\* the switch; m = shouldMerge(tree, node, idx, updated)
nodeDeleteCase(t, node, idx, updated, m) ==
    IF m.dir = 2 THEN Panicked(t)
    ELSE IF m.dir < 0
         THEN nodeDeleteMerged(t, node, (idx - 1) % W16, getPtr(node, (idx - 1) % W16),
                               nodeMerge(Zeros(BTREE_PAGE_SIZE), m.sibling, updated))
    ELSE IF m.dir < 0
         THEN nodeDeleteMerged(t, node, idx, getPtr(node, (idx + 1) % W16),
                               nodeMerge(Zeros(BTREE_PAGE_SIZE), m.sibling, updated))
    ELSE IF m.dir = 0 /\ nkeys(updated) = 0
         THEN IF ~(nkeys(node) = 1 /\ idx = 0) THEN Panicked(t)
              ELSE [t |-> t, node |-> setHeader(Zeros(BTREE_PAGE_SIZE), BNODE_NODE, 0)]
    ELSE IF m.dir = 0 /\ nkeys(updated) > 0
         THEN nodeReplaceKidN(t, Zeros(BTREE_PAGE_SIZE), node, idx, << updated >>)
    ELSE [t |-> t, node |-> Zeros(BTREE_PAGE_SIZE)]

\* t: the store after tree.del(kptr)
nodeDeleteMerge(t, node, idx, updated) ==
    nodeDeleteCase(t, node, idx, updated, shouldMerge(t, node, idx, updated))

\* u: the tree and the node treeDelete returned
nodeDeleteKid(node, idx, kptr, u) ==
    IF IsPanic(u.node) THEN u
    ELSE IF Len(u.node) = 0 THEN [t |-> u.t, node |-> << >>]
    ELSE nodeDeleteMerge(StoreDel(u.t, kptr), node, idx, u.node)

nodeDeleteAt(t, node, idx, key, kptr) ==
    IF kptr < 0 THEN Panicked(t)
    ELSE nodeDeleteKid(node, idx, kptr, treeDelete(t, StoreGet(t, idx), key))

nodeDelete(t, node, idx, key) == nodeDeleteAt(t, node, idx, key, getPtr(node, idx))

\* node = << >> (BNode{}) for not found
treeDeleteAt(t, node, key, idx) ==
    IF idx < 0 THEN Panicked(t)
    ELSE IF btype(node) = BNODE_LEAF
         THEN IF idx < nkeys(node) /\ key = getKey(node, idx)
              THEN [t |-> t, node |-> leafDelete(Zeros(BTREE_PAGE_SIZE), node, idx)]
              ELSE [t |-> t, node |-> << >>]
    ELSE IF btype(node) = BNODE_NODE THEN nodeDelete(t, node, idx, key)
    ELSE Panicked(t)

treeDelete(t, node, key) ==
    IF IsPanic(node) THEN Panicked(t)
    ELSE treeDeleteAt(t, node, key, nodeLookupLE(node, key))

\* res: "found" (true), "absent" (false) or "panic"
DeleteNewRoot(t, node) ==
    [t |-> [StoreNew(t, node) EXCEPT !.root = t.nextId], res |-> "found"]

DeleteRoot(oldRoot, u) ==
    IF IsPanic(u.node) THEN [t |-> u.t, res |-> "panic"]
    ELSE IF Len(u.node) = 0 THEN [t |-> u.t, res |-> "absent"]
    ELSE IF btype(u.node) = BNODE_NODE /\ nkeys(u.node) = 0
         THEN [t |-> [StoreDel(u.t, oldRoot) EXCEPT !.root = 0], res |-> "found"]
    ELSE DeleteNewRoot(StoreDel(u.t, oldRoot), u.node)

Delete(t, key) ==
    IF t.root = 0 THEN [t |-> t, res |-> "absent"]
    ELSE DeleteRoot(t.root, treeDelete(t, StoreGet(t, t.root), key))

ABSENT == << 0 - 2 >>

\* the value, ABSENT, or PANIC for a page that is no node
RECURSIVE treeGet(_, _, _)
treeGetAt(t, node, key, idx) ==
    IF idx < 0 THEN PANIC
    ELSE IF btype(node) = BNODE_LEAF
         THEN IF idx < nkeys(node) /\ key = getKey(node, idx)
              THEN getValue(node, idx) ELSE ABSENT
    ELSE IF btype(node) = BNODE_NODE
         THEN IF idx < nkeys(node) THEN treeGet(t, StoreGet(t, getPtr(node, idx)), key)
              ELSE ABSENT
    ELSE PANIC

treeGet(t, node, key) ==
    IF IsPanic(node) THEN PANIC ELSE treeGetAt(t, node, key, nodeLookupLE(node, key))

Get(t, key) == IF t.root = 0 THEN ABSENT ELSE treeGet(t, StoreGet(t, t.root), key)

(***************************************************************************)
(* The inputs: keys and values by name, and the trees a BTree is opened    *)
(* on: the empty tree and trees in the documented node format (the first   *)
(* leaf starts with the empty sentinel key, an internal node's key i is    *)
(* the first key of its child i).                                          *)
(***************************************************************************)
Fill(n, byte) == [i \in 1..n |-> byte]

Keys == {"a", "n", "K"}
Vals == {"x", "V"}

KeyBytes(k) ==
    IF k = "a" THEN << 97 >>
    ELSE IF k = "c" THEN << 99 >>
    ELSE IF k = "m" THEN << 109 >>
    ELSE IF k = "n" THEN << 110 >>
    ELSE IF k = "t" THEN << 116 >>
    ELSE Fill(BTREE_MAX_KEY_SIZE, 75)

ValBytes(v) ==
    IF v = "x" THEN << 120 >>
    ELSE IF v = "y" THEN << 121, 121 >>
    ELSE Fill(BTREE_MAX_VAL_SIZE, 86)

E(k, val) == [ptr |-> 0, key |-> k, val |-> val]
Kid(k, ptr) == [ptr |-> ptr, key |-> k, val |-> << >>]
Sentinel == E(<< >>, << >>)

TreeOf(root, pages) ==
    [root |-> root, pages |-> [p \in 1..Len(pages) |-> Pack(pages[p])],
     nextId |-> Len(pages) + 1, freed |-> << >>, sizes |-> {}]

EmptyTree == TreeOf(0, << >>)

\* one leaf
LeafTree ==
    TreeOf(1, << Encode(BNODE_LEAF, << Sentinel, E(<< 97 >>, << 120 >>),
                                       E(<< 99 >>, << 121, 121 >>) >>) >>)

\* two leaves under the root, page 3
TwoLeafTree ==
    TreeOf(3, << Encode(BNODE_LEAF, << Sentinel, E(<< 97 >>, << 120 >>),
                                       E(<< 99 >>, << 121, 121 >>) >>),
                 Encode(BNODE_LEAF, << E(<< 109 >>, << 120 >>), E(<< 110 >>, << 121, 121 >>) >>),
                 Encode(BNODE_NODE, << Kid(<< >>, 1), Kid(<< 109 >>, 2) >>) >>)

\* the same keys, the second leaf on page 1
SwappedTree ==
    TreeOf(3, << Encode(BNODE_LEAF, << E(<< 109 >>, << 120 >>), E(<< 110 >>, << 121, 121 >>) >>),
                 Encode(BNODE_LEAF, << Sentinel, E(<< 97 >>, << 120 >>),
                                       E(<< 99 >>, << 121, 121 >>) >>),
                 Encode(BNODE_NODE, << Kid(<< >>, 2), Kid(<< 109 >>, 1) >>) >>)

\* the second leaf stays above a quarter page without n
BigLeafTree ==
    TreeOf(3, << Encode(BNODE_LEAF, << E(<< 109 >>, Fill(1100, 1)), E(<< 110 >>, << 121, 121 >>) >>),
                 Encode(BNODE_LEAF, << Sentinel, E(<< 97 >>, << 120 >>),
                                       E(<< 99 >>, << 121, 121 >>) >>),
                 Encode(BNODE_NODE, << Kid(<< >>, 2), Kid(<< 109 >>, 1) >>) >>)

\* three leaves: the first too full to take the second, the third after it
ThreeLeafTree ==
    TreeOf(4, << Encode(BNODE_LEAF, << E(<< 109 >>, Fill(1000, 1)), E(<< 110 >>, << 121, 121 >>) >>),
                 Encode(BNODE_LEAF, << Sentinel, E(<< 97 >>, Fill(1520, 2)),
                                       E(<< 99 >>, Fill(1520, 3)) >>),
                 Encode(BNODE_LEAF, << E(<< 116 >>, << 120 >>) >>),
                 Encode(BNODE_NODE, << Kid(<< >>, 2), Kid(<< 109 >>, 1),
                                       Kid(<< 116 >>, 3) >>) >>)

InitTrees == {EmptyTree, LeafTree, TwoLeafTree, SwappedTree, BigLeafTree, ThreeLeafTree}

\* the calls one run makes
MaxOps == 2

(***************************************************************************)
(* nodeSplit3's inputs: leaves of 2..MaxSplitKeys entries in the 2-page    *)
(* buffer treeInsert hands over, the entry i with the key <<96 + i>> and a *)
(* value of s[i] bytes, for every sequence s of value lengths that fits    *)
(* the buffer.                                                             *)
(***************************************************************************)
MaxSplitKeys == 4

SplitLens == {500, 1500, 2900}

SplitEntries(s) == [i \in 1..Len(s) |-> E(<< 96 + i >>, Fill(s[i], i))]

RECURSIVE SplitKVBytes(_, _)
SplitKVBytes(s, i) == IF i > Len(s) THEN 0 ELSE 4 + 1 + s[i] + SplitKVBytes(s, i + 1)

\* the encoded size: header, pointers, offsets, key-values
SplitSize(s) == HEADER + 8 * Len(s) + 2 * Len(s) + SplitKVBytes(s, 1)

SplitInputs ==
    {s \in UNION {[1..n -> SplitLens] : n \in 2..MaxSplitKeys} :
        SplitSize(s) <= 2 * BTREE_PAGE_SIZE}

SplitNode(s) == EncodeN(2 * BTREE_PAGE_SIZE, BNODE_LEAF, SplitEntries(s))

\* what nodeSplit3 returned: the count and, node by node, nbytes() and the entries
SplitResult(r) ==
    [n |-> r.n,
     parts |-> [i \in 1..Len(r.nodes) |->
                   [nbytes |-> nbytes(r.nodes[i]), entries |-> Entries(r.nodes[i])]]]

NotSplit == [n |-> 0, parts |-> << >>]

(***************************************************************************)
(* The commit protocol's world.  The tree's versions are numbered: version *)
(* v > 0 is written as the pages NewPages(v), has the root page Root(v)    *)
(* and keeps one page of version v - 1; version 0 is the empty tree.  No   *)
(* page ID is used twice.  The file is what was written (written, wroot)   *)
(* and what of it has reached the disk (durable, droot).                   *)
(***************************************************************************)
MaxCommits == 3

Root(v) == 2 * v

NewPages(v) == IF v = 0 THEN {} ELSE {2 * v - 1, 2 * v}

Reach(v) == NewPages(v) \cup (IF v > 1 THEN {2 * v - 3} ELSE {})

VersionOf(root) == root \div 2

\* updateFile without its first fsync
updateFileNoFirstFsync(pc, err) ==
    IF pc = "writePages" THEN (IF err THEN "failed" ELSE "updateRoot")
    ELSE IF pc = "fsync1" THEN (IF err THEN "failed" ELSE "updateRoot")
    ELSE IF pc = "updateRoot" THEN (IF err THEN "failed" ELSE "fsync2")
    ELSE IF err THEN "failed" ELSE "done"

\* updateFile dropping the error of writePages
updateFileDropsWriteError(pc, err) ==
    IF pc = "writePages" THEN "fsync1"
    ELSE IF pc = "fsync1" THEN (IF err THEN "failed" ELSE "updateRoot")
    ELSE IF pc = "updateRoot" THEN (IF err THEN "failed" ELSE "fsync2")
    ELSE IF err THEN "failed" ELSE "done"

\* updateFile's control: the step after the step pc, which returned err
updateFile(pc, err) ==
    IF pc = "writePages" THEN (IF err THEN "failed" ELSE "fsync1")
    ELSE IF pc = "fsync1" THEN (IF err THEN "failed" ELSE "updateRoot")
    ELSE IF pc = "updateRoot" THEN (IF err THEN "failed" ELSE "fsync2")
    ELSE IF err THEN "failed" ELSE "done"

(***************************************************************************)
(* The state.  The BTree and its page store (tree), whether the process    *)
(* has panicked (status), and the record of the calls made: hist (each     *)
(* call with its result), pre (the tree before the last call) and          *)
(* fromEmpty (the run started on the empty tree).  For nodeSplit3 alone:   *)
(* splitIn (the input) and splitOut (the result).  For the commit: cpc     *)
(* (where updateFile is), version (the tree being committed), the file     *)
(* (written, wroot, durable, droot) and log (the steps updateFile ran,     *)
(* each with whether it returned nil).  For one function of the codec or   *)
(* the controller applied to one input: call (the function and its         *)
(* arguments) and ret (what it returned).                                  *)
(***************************************************************************)
VARIABLES tree, status, hist, pre, fromEmpty, splitIn, splitOut,
          cpc, version, written, wroot, durable, droot, log, call, ret

treeVars == << tree, status, hist, pre, fromEmpty >>
splitVars == << splitIn, splitOut >>
commitVars == << cpc, version, written, wroot, durable, droot, log >>
unitVars == << call, ret >>
vars == << treeVars, splitVars, commitVars, unitVars >>

TreeIdle ==
    /\ tree = EmptyTree
    /\ status = "run"
    /\ hist = << >>
    /\ pre = EmptyTree
    /\ fromEmpty = TRUE

SplitIdle ==
    /\ splitIn = << >>
    /\ splitOut = NotSplit

CommitIdle ==
    /\ cpc = "idle"
    /\ version = 0
    /\ written = {}
    /\ wroot = 0
    /\ durable = {}
    /\ droot = 0
    /\ log = << >>

\* no call made, nothing returned
None == [f |-> "none"]

UnitIdle ==
    /\ call = None
    /\ ret = None

(***************************************************************************)
(* Spec: calls of Insert and Delete on a BTree, opened on the empty store  *)
(* or on a store that holds a tree.                                        *)
(***************************************************************************)
Init ==
    /\ tree \in InitTrees
    /\ status = "run"
    /\ hist = << >>
    /\ pre = tree
    /\ fromEmpty = (tree.root = 0)
    /\ SplitIdle
    /\ CommitIdle
    /\ UnitIdle

Called(op, k, v, r) ==
    /\ tree' = r.t
    /\ pre' = tree
    /\ status' = IF r.res = "panic" THEN "panic" ELSE "run"
    /\ hist' = Append(hist, [op |-> op, key |-> k, val |-> v, res |-> r.res])
    /\ UNCHANGED << fromEmpty, splitVars, commitVars, unitVars >>

DoInsert ==
    /\ status = "run"
    /\ Len(hist) < MaxOps
    /\ \E k \in Keys, v \in Vals :
          Called("Insert", k, v, Insert(tree, KeyBytes(k), ValBytes(v)))

DoDelete ==
    /\ status = "run"
    /\ Len(hist) < MaxOps
    /\ \E k \in Keys : Called("Delete", k, "", Delete(tree, KeyBytes(k)))

Next == DoInsert \/ DoDelete

Spec == Init /\ [][Next]_vars

(***************************************************************************)
(* SpecSplit: nodeSplit3 applied to one input.                             *)
(***************************************************************************)
InitSplit ==
    /\ splitIn \in SplitInputs
    /\ splitOut = NotSplit
    /\ TreeIdle
    /\ CommitIdle
    /\ UnitIdle

DoSplit ==
    /\ splitOut = NotSplit
    /\ splitOut' = SplitResult(nodeSplit3(SplitNode(splitIn)))
    /\ UNCHANGED << splitIn, treeVars, commitVars, unitVars >>

NextSplit == DoSplit

SpecSplit == InitSplit /\ [][NextSplit]_vars

(***************************************************************************)
(* SpecCommit: updateFile, one call per logical write, step by step; the   *)
(* operating system writing back what was written, in any order, at any    *)
(* time; a crash at any time, which loses what has not reached the disk.   *)
(***************************************************************************)
InitCommit ==
    /\ CommitIdle
    /\ TreeIdle
    /\ SplitIdle
    /\ UnitIdle

\* KV.Set or KV.Delete has changed the tree and calls updateFile
Begin ==
    /\ cpc \in {"idle", "done"}
    /\ version < MaxCommits
    /\ version' = version + 1
    /\ cpc' = "writePages"
    /\ log' = << >>
    /\ UNCHANGED << written, wroot, durable, droot, treeVars, splitVars, unitVars >>

Step(name, err) ==
    /\ cpc' = updateFile(cpc, err)
    /\ log' = Append(log, [step |-> name, ok |-> ~err])

\* writePages: every new page written, or an error after some of them
WritePages ==
    /\ cpc = "writePages"
    /\ \/ /\ written' = written \cup NewPages(version)
          /\ Step("writePages", FALSE)
       \/ /\ \E some \in (SUBSET NewPages(version)) \ {NewPages(version)} :
                written' = written \cup some
          /\ Step("writePages", TRUE)
    /\ UNCHANGED << version, wroot, durable, droot, treeVars, splitVars, unitVars >>

\* syscall.Fsync: everything written is on the disk when it returns nil
Fsync ==
    /\ cpc \in {"fsync1", "fsync2"}
    /\ \/ /\ durable' = written
          /\ droot' = wroot
          /\ Step("fsync", FALSE)
       \/ /\ UNCHANGED << durable, droot >>
          /\ Step("fsync", TRUE)
    /\ UNCHANGED << version, written, wroot, treeVars, splitVars, unitVars >>

\* updateRoot: the root pointer written in one piece, or an error
UpdateRoot ==
    /\ cpc = "updateRoot"
    /\ \/ /\ wroot' = Root(version)
          /\ Step("updateRoot", FALSE)
       \/ /\ UNCHANGED wroot
          /\ Step("updateRoot", TRUE)
    /\ UNCHANGED << version, written, durable, droot, treeVars, splitVars, unitVars >>

\* the operating system writes back one page or the root pointer
Writeback ==
    /\ cpc # "crashed"
    /\ \/ /\ \E p \in written \ durable : durable' = durable \cup {p}
          /\ UNCHANGED droot
       \/ /\ droot # wroot
          /\ droot' = wroot
          /\ UNCHANGED durable
    /\ UNCHANGED << cpc, version, written, wroot, log, treeVars, splitVars, unitVars >>

Crash ==
    /\ cpc # "crashed"
    /\ cpc' = "crashed"
    /\ written' = durable
    /\ wroot' = droot
    /\ UNCHANGED << version, durable, droot, log, treeVars, splitVars, unitVars >>

NextCommit == Begin \/ WritePages \/ Fsync \/ UpdateRoot \/ Writeback \/ Crash

SpecCommit == InitCommit /\ [][NextCommit]_vars

(***************************************************************************)
(* SpecUnit: one function of the codec or of the controller applied to one *)
(* input.  The input nodes are written in the documented node format.      *)
(***************************************************************************)
\* the pieces the top-level nodeSplit3 hands to Insert: at most MaxPieces, piece i
\* with a first value of s[i] bytes, 1, 2 or 900
MaxPieces == 3

\* piece i: a leaf of two entries, the first with a value of s[i] bytes
Piece(s, i) ==
    Encode(BNODE_LEAF, << E(<< 96 + 2 * i >>, Fill(s[i], i)),
                          E(<< 97 + 2 * i >>, << i >>) >>)

Pieces(s) == [i \in 1..Len(s) |-> Piece(s, i)]

InsertCalls ==
    {[f |-> "Insert", pieces |-> s] :
        s \in UNION {[1..n -> {1, 2, 900}] : n \in 1..MaxPieces}}

\* nodeAppendKV's inputs: a leaf of n keys whose slots below i are filled
MaxAppendKeys == 3

\* the slots 0..i-1 appended as the node format documents them
AppendNode(n, i) ==
    EncodeFrom(setHeader(Zeros(BTREE_PAGE_SIZE), BNODE_LEAF, n),
               [j \in 1..i |-> E(<< 96 + j >>, << j, j >>)], 1)

AppendCalls ==
    {c \in {[f |-> "nodeAppendKV", n |-> n, i |-> i, ptr |-> p, key |-> k, val |-> v] :
               n \in 1..MaxAppendKeys, i \in 0..(MaxAppendKeys - 1), p \in {0, 7},
               k \in {<< >>, << 107 >>, << 107, 108 >>},
               v \in {<< >>, << 118 >>, << 118, 119, 120 >>}} :
        c.i < c.n}

\* nodeLookupLE's inputs: leaves of at most MaxLookupKeys strictly increasing keys
MaxLookupKeys == 3

LookupKeys == {<< >>, << 97 >>, << 97, 98 >>, << 99 >>}

LookupNode(ks) == Encode(BNODE_LEAF, [i \in 1..Len(ks) |-> E(ks[i], << i >>)])

LookupCalls ==
    {[f |-> "nodeLookupLE", keys |-> ks, key |-> k] :
        ks \in {s \in UNION {[1..n -> LookupKeys] : n \in 0..MaxLookupKeys} :
                   \A i \in 1..(Len(s) - 1) : Compare(s[i], s[i + 1]) < 0},
        k \in LookupKeys \cup {<< 98 >>}}

\* shouldMerge's inputs: the parent's kids (page 2 the updated child, page 1 its
\* left sibling, page 3 its right sibling) and the value bytes l, r, u of the two
\* siblings and of the updated child, around the two thresholds
MergeLeaf(k, v) ==
    Encode(BNODE_LEAF, << E(<< k >>, Fill(v \div 2, 1)),
                          E(<< k + 1 >>, Fill(v - v \div 2, 2)) >>)

MergeCalls ==
    {[f |-> "shouldMerge", kids |-> ks, l |-> l, r |-> r, u |-> u] :
        ks \in {<< 2 >>, << 2, 3 >>, << 1, 2 >>, << 1, 2, 3 >>},
        l \in {100, 3042, 3043}, r \in {100, 3042, 3043}, u \in {990, 991}}

\* the slot of the updated child
MergeIdx(ks) == IF ks[1] = 2 THEN 0 ELSE 1

MergeParent(ks) ==
    Encode(BNODE_NODE, [i \in 1..Len(ks) |-> Kid(<< 95 + 2 * ks[i] >>, ks[i])])

\* the store nodeDelete hands over: the child's page freed, the parent on page 4
MergeStore(c) ==
    StoreDel(TreeOf(4, << MergeLeaf(97, c.l), MergeLeaf(99, c.u + 1), MergeLeaf(101, c.r),
                          MergeParent(c.kids) >>), 2)

\* the page IDs stored as child pointers, below and above 2^16, and the slots
PtrCalls ==
    {c \in {[f |-> "setPtr", n |-> n, i |-> i, p |-> p] :
               n \in 1..MaxAppendKeys, i \in 0..(MaxAppendKeys - 1),
               p \in {1, 255, 256, 65535, 65536, 65537, 16777217}} :
        c.i < c.n}

InitUnit ==
    /\ \/ call \in InsertCalls
       \/ call \in AppendCalls
       \/ call \in LookupCalls
       \/ call \in MergeCalls
       \/ call \in PtrCalls
    /\ ret = None
    /\ TreeIdle
    /\ SplitIdle
    /\ CommitIdle

\* BTree.Insert from tree.del(tree.root) on, the root on page 1 of a one-leaf tree
\* and nodeSplit3 having returned the pieces
DoInsertSplit ==
    /\ call.f = "Insert"
    /\ ret = None
    /\ ret' = InsertSplit(LeafTree, LeafTree.root,
                          [n |-> Len(call.pieces), nodes |-> Pieces(call.pieces)])
    /\ UNCHANGED << call, treeVars, splitVars, commitVars >>

DoAppendKV ==
    /\ call.f = "nodeAppendKV"
    /\ ret = None
    /\ ret' = [node |-> nodeAppendKV(AppendNode(call.n, call.i), call.i, call.ptr,
                                     call.key, call.val)]
    /\ UNCHANGED << call, treeVars, splitVars, commitVars >>

DoLookupLE ==
    /\ call.f = "nodeLookupLE"
    /\ ret = None
    /\ ret' = [idx |-> nodeLookupLE(LookupNode(call.keys), call.key)]
    /\ UNCHANGED << call, treeVars, splitVars, commitVars >>

DoShouldMerge ==
    /\ call.f = "shouldMerge"
    /\ ret = None
    /\ ret' = [dir |-> shouldMerge(MergeStore(call), MergeParent(call.kids),
                                   MergeIdx(call.kids), MergeLeaf(99, call.u)).dir]
    /\ UNCHANGED << call, treeVars, splitVars, commitVars >>

\* the page ID p stored as child pointer i, as nodeReplaceKidN and Insert store it
\* (setPtr(idx, uint16(ptr)) through nodeAppendKV), and read back
DoSetPtr ==
    /\ call.f = "setPtr"
    /\ ret = None
    /\ ret' = [ptr |-> getPtr(setPtr(setHeader(Zeros(BTREE_PAGE_SIZE), BNODE_NODE, call.n),
                                     call.i, call.p % W16),
                              call.i)]
    /\ UNCHANGED << call, treeVars, splitVars, commitVars >>

NextUnit == DoInsertSplit \/ DoAppendKV \/ DoLookupLE \/ DoShouldMerge \/ DoSetPtr

SpecUnit == InitUnit /\ [][NextUnit]_vars

(***************************************************************************)
(* The properties.                                                         *)
(***************************************************************************)
\* the keys the tree is read at
AllKeys == {"a", "c", "m", "n", "t", "K"}

Last == hist[Len(hist)]

Returned(op) == Len(hist) > 0 /\ Last.op = op

\* the documented limits: a key of at most 999 bytes, a value of at most 2999
WithinLimits(k, v) ==
    /\ Len(KeyBytes(k)) <= BTREE_MAX_KEY_SIZE - 1
    /\ Len(ValBytes(v)) <= BTREE_MAX_VAL_SIZE - 1

IsValue(g) == g # ABSENT /\ ~IsPanic(g)

Pairs(t) == [k \in AllKeys |-> Get(t, KeyBytes(k))]

KeyCount(t) == Cardinality({k \in AllKeys : IsValue(Get(t, KeyBytes(k)))})

\* C1 (round trip): in a run that starts on the empty tree and makes only Insert
\* calls within the size limits, every call returns nil and Get of every inserted
\* key returns the value of the last Insert for it.
C1_RoundTrip ==
    (/\ fromEmpty
     /\ \A i \in 1..Len(hist) :
           hist[i].op = "Insert" /\ WithinLimits(hist[i].key, hist[i].val))
    => \A i \in 1..Len(hist) :
          /\ hist[i].res = "ok"
          /\ (\A j \in (i + 1)..Len(hist) : hist[j].key # hist[i].key)
             => Get(tree, KeyBytes(hist[i].key)) = ValBytes(hist[i].val)

\* C2 (crash atomicity): at every point of a commit, a crash included, the root
\* pointer on the disk is the old tree's or the new tree's, and every page of the
\* tree it points to is on the disk.
C2_CrashAtomic ==
    /\ droot \in {Root(version), Root(IF version > 0 THEN version - 1 ELSE 0)}
    /\ Reach(VersionOf(droot)) \subseteq durable

\* a crash between the root update and the second fsync, the new root on the disk
C2_CrashAfterRootUpdate ==
    /\ cpc = "crashed"
    /\ Len(log) = 3
    /\ log[3].ok
    /\ version > 0
    /\ droot = Root(version)

UpdateFileOrder == << "writePages", "fsync", "updateRoot", "fsync" >>

\* C3 (commit ordering): the steps updateFile ran are a prefix of writePages,
\* fsync, updateRoot, fsync; only the last of them can have failed, updateFile has
\* then returned its error; after a failed page write or first fsync the root
\* pointer of the file is the old tree's.
C3_CommitOrder ==
    /\ Len(log) <= Len(UpdateFileOrder)
    /\ \A i \in 1..Len(log) :
          /\ log[i].step = UpdateFileOrder[i]
          /\ (i < Len(log) => log[i].ok)
    /\ (cpc = "failed" => (Len(log) > 0 /\ ~log[Len(log)].ok))
    /\ ((Len(log) > 0 /\ ~log[Len(log)].ok) => cpc \in {"failed", "crashed"})
    /\ (cpc = "done" => (Len(log) = Len(UpdateFileOrder) /\ log[Len(log)].ok))
    /\ ((cpc = "failed" /\ Len(log) <= 2) => wroot = Root(version - 1))

\* the first fsync has failed
C3_FirstFsyncFailed ==
    /\ cpc = "failed"
    /\ Len(log) = 2
    /\ log[1].ok
    /\ ~log[2].ok

\* C4 (delete completeness): after Delete(key) has returned found = true, Get(key)
\* returns absent and Get of every other key returns what it returned before.
C4_DeleteCompleteness ==
    (Returned("Delete") /\ Last.res = "found")
    => /\ Get(tree, KeyBytes(Last.key)) = ABSENT
       /\ \A k \in AllKeys \ {Last.key} :
             Get(tree, KeyBytes(k)) = Get(pre, KeyBytes(k))

\* C5 (delete of an absent key): Delete(key) on a tree that does not hold key
\* returns found = false, leaves every pair as it was, allocates no page and frees
\* none.
C5_DeleteAbsent ==
    (Returned("Delete") /\ Get(pre, KeyBytes(Last.key)) = ABSENT)
    => /\ Last.res = "absent"
       /\ Pairs(tree) = Pairs(pre)
       /\ tree.nextId = pre.nextId
       /\ tree.freed = pre.freed

\* C6 (idempotent update): Insert(key, v2) within the size limits on a tree that
\* holds key returns nil, Get(key) is v2 afterwards and the tree holds as many keys
\* as before.
C6_IdempotentUpdate ==
    (/\ Returned("Insert")
     /\ WithinLimits(Last.key, Last.val)
     /\ IsValue(Get(pre, KeyBytes(Last.key))))
    => /\ Last.res = "ok"
       /\ Get(tree, KeyBytes(Last.key)) = ValBytes(Last.val)
       /\ KeyCount(tree) = KeyCount(pre)

\* C7 (size limit): Insert with a key longer than 999 bytes or a value longer than
\* 2999 bytes, either one alone, returns the error, and leaves the root pointer
\* and the page store as they were.
C7_SizeLimit ==
    (Returned("Insert") /\ ~WithinLimits(Last.key, Last.val))
    => /\ Last.res = "err"
       /\ tree = pre

\* C8 (page size): every node handed to the page store's allocate has
\* nbytes() <= 4096.
C8_PageSize == \A n \in tree.sizes : n >= 0 /\ n <= BTREE_PAGE_SIZE

\* nodeDelete has merged two nodes and allocated the merged node
C8_MergedAllocated ==
    /\ Returned("Delete")
    /\ Last.res = "found"
    /\ Len(tree.freed) - Len(pre.freed) = 3
    /\ tree.sizes # pre.sizes

RECURSIVE SplitConcat(_, _)
SplitConcat(parts, i) ==
    IF i > Len(parts) THEN << >>
    ELSE Concat(parts[i].entries, SplitConcat(parts, i + 1))

\* C9 (split correctness): nodeSplit3 returns a node of at most 4096 bytes as it
\* is, and a node of 4097..8192 bytes as 2 or 3 nodes, each of at most 4096 bytes
\* and at least one key, whose entries in order are the node's entries.
C9_SplitCorrect ==
    (splitOut # NotSplit)
    => /\ SplitSize(splitIn) <= BTREE_PAGE_SIZE => splitOut.n = 1
       /\ SplitSize(splitIn) > BTREE_PAGE_SIZE => splitOut.n \in {2, 3}
       /\ \A i \in 1..Len(splitOut.parts) :
             /\ splitOut.parts[i].nbytes <= BTREE_PAGE_SIZE
             /\ Len(splitOut.parts[i].entries) >= 1
       /\ SplitConcat(splitOut.parts, 1) = SplitEntries(splitIn)

\* the page ID allocate returned for piece i of the root split
PieceId(i) == LeafTree.nextId + i - 1

RECURSIVE PagesUnder(_, _)
PagesUnderNode(t, id, node) ==
    IF btype(node) = BNODE_NODE
    THEN {id} \cup UNION {PagesUnder(t, getPtr(node, i)) : i \in 0..(nkeys(node) - 1)}
    ELSE {id}

PagesUnder(t, id) ==
    IF id \in DOMAIN t.pages THEN PagesUnderNode(t, id, Unpack(t.pages[id])) ELSE {id}

TreePages(t) == IF t.root = 0 THEN {} ELSE PagesUnder(t, t.root)

Freed(t) == {t.freed[i] : i \in 1..Len(t.freed)}

\* C12 (page lifecycle): after an Insert or a Delete has returned on a non-empty
\* tree, every page reachable from the new root is in the store and was not freed,
\* every page of the old tree that the new root no longer reaches was freed, and no
\* page ID was freed twice.
C12_PageLifecycle ==
    (Len(hist) > 0 /\ Last.res # "panic" /\ pre.root # 0)
    => /\ TreePages(tree) \subseteq DOMAIN tree.pages
       /\ TreePages(tree) \cap Freed(tree) = {}
       /\ (TreePages(pre) \ TreePages(tree)) \subseteq Freed(tree)
       /\ Cardinality(Freed(tree)) = Len(tree.freed)

\* what the contract says of the node out = nodeAppendKV(in, i, ptr, key, val)
AppendContract(in, out, i, ptr, key, val) ==
    /\ ~IsPanic(out)
    /\ U16(out, kvPos(in, i)) = Len(key)
    /\ U16(out, kvPos(in, i) + 2) = Len(val)
    /\ getOffset(out, i + 1) = getOffset(in, i) + 4 + Len(key) + Len(val)
    /\ getOffset(out, i) = getOffset(in, i)
    /\ getKey(out, i) = key
    /\ getValue(out, i) = val
    /\ getPtr(out, i) = ptr

\* C13 (appendEntry contract): nodeAppendKV(node, i, ptr, key, value) stores |key|
\* and |value| in the entry's size fields and sets offsets[i+1] to offsets[i] + 4 +
\* |key| + |value|, leaving offsets[i]; afterwards getKey(i) = key, getValue(i) =
\* value and getPtr(i) = ptr, for every slot i below nkeys, i = 0 included.
C13_AppendContract ==
    (call.f = "nodeAppendKV" /\ ret # None)
    => AppendContract(AppendNode(call.n, call.i), ret.node, call.i, call.ptr,
                      call.key, call.val)

\* node is a leaf holding the empty sentinel entry and then (key, val)
IsFirstLeaf(node, key, val) ==
    /\ btype(node) = BNODE_LEAF
    /\ Entries(node) = << Sentinel, E(key, val) >>

\* C14 (empty-tree insert): Insert(key, value) on the empty tree returns without an
\* assertion failure, allocates exactly one page and frees none, sets the root to
\* that page, and the page is a leaf holding the sentinel entry at slot 0 and
\* (key, value) at slot 1.
C14_EmptyInsert ==
    (Returned("Insert") /\ pre.root = 0 /\ WithinLimits(Last.key, Last.val))
    => /\ Last.res = "ok"
       /\ tree.nextId = pre.nextId + 1
       /\ tree.freed = pre.freed
       /\ tree.root = pre.nextId
       /\ tree.root \in DOMAIN tree.pages
       /\ IsFirstLeaf(StoreGet(tree, tree.root), KeyBytes(Last.key), ValBytes(Last.val))

\* root is the root the claim describes for the pieces ps
RootOfPieces(root, ps) ==
    IF Len(ps) = 1 THEN root = ps[1]
    ELSE /\ btype(root) = BNODE_NODE
         /\ nkeys(root) = Len(ps)
         /\ \A i \in 1..Len(ps) :
               /\ getPtr(root, i - 1) = PieceId(i)
               /\ getKey(root, i - 1) = getKey(ps[i], 0)

LookupResult(ks, key, idx) ==
    IF \E i \in 1..Len(ks) : Compare(ks[i], key) <= 0
    THEN /\ idx + 1 \in 1..Len(ks)
         /\ Compare(ks[idx + 1], key) <= 0
         /\ \A j \in 1..Len(ks) : Compare(ks[j], key) <= 0 => j <= idx + 1
    ELSE /\ idx >= Len(ks)
         /\ idx # 0

\* C16 (lookup): on a node of strictly increasing keys nodeLookupLE returns the
\* index of the greatest key <= the search key (the matching index on equality);
\* when every key is greater, or the node has no key, it returns a value that is
\* no valid index (>= nkeys) and is not 0.
C16_Lookup ==
    (call.f = "nodeLookupLE" /\ ret # None)
    => LookupResult(call.keys, call.key, ret.idx)

\* the search key is below the node's first key: the lookup has returned 65535
C16_BelowFirst ==
    /\ call.f = "nodeLookupLE"
    /\ ret # None
    /\ Len(call.keys) > 0
    /\ Compare(call.key, call.keys[1]) < 0
    /\ ret.idx = W16 - 1

\* the encoded size of a leaf of two entries with 1-byte keys and v value bytes
LeafSize(v) == HEADER + 2 * (8 + 2 + 4 + 1) + v

\* the direction the claim gives, from the sizes
MergeExpected(ub, hasLeft, lb, hasRight, rb) ==
    IF ub > BTREE_PAGE_SIZE \div 4 THEN 0
    ELSE IF hasLeft /\ lb + ub - HEADER <= BTREE_PAGE_SIZE THEN 0 - 1
    ELSE IF hasRight /\ rb + ub - HEADER <= BTREE_PAGE_SIZE THEN 1
    ELSE 0

\* C17 (merge eligibility): shouldMerge returns 0 when updated.nbytes() is above a
\* quarter page; otherwise -1 when there is a left sibling and its size plus the
\* updated node's minus the header fits a page; otherwise +1 when there is a right
\* sibling and its encoded size plus the updated node's minus the header fits a
\* page; otherwise 0.
C17_MergeEligibility ==
    (call.f = "shouldMerge" /\ ret # None)
    => ret.dir = MergeExpected(LeafSize(call.u), MergeIdx(call.kids) > 0, LeafSize(call.l),
                               MergeIdx(call.kids) + 1 < Len(call.kids), LeafSize(call.r))

\* the direction shouldMerge gave nodeDelete(t, node, idx, key): as nodeDelete calls
\* it, after the child's page is freed, on the node treeDelete returned
MergeChosen(t, node, idx, key) ==
    shouldMerge(StoreDel(t, getPtr(node, idx)), node, idx,
                treeDelete(t, StoreGet(t, idx), key).node).dir

\* the splice for the direction dir: the child's and the sibling's pages freed, and
\* the parent new a node of one key fewer whose slot of the pair holds a page
\* allocated by the call
MergeSpliced(node, idx, dir, new) ==
    /\ getPtr(node, idx) \in Freed(tree)
    /\ getPtr(node, idx + dir) \in Freed(tree)
    /\ new # Zeros(BTREE_PAGE_SIZE)
    /\ btype(new) = BNODE_NODE
    /\ nkeys(new) = nkeys(node) - 1
    /\ getPtr(new, IF dir < 0 THEN idx - 1 ELSE idx) \in DOMAIN tree.pages
    /\ getPtr(new, IF dir < 0 THEN idx - 1 ELSE idx) >= pre.nextId

\* node: the root of the tree before the call, an internal node
MergeSplicedAt(node, idx, key) ==
    MergeChosen(pre, node, idx, key) # 0
    => MergeSpliced(node, idx, MergeChosen(pre, node, idx, key), StoreGet(tree, tree.root))

\* C18 (merge splice): whenever shouldMerge selects a sibling, left or right,
\* nodeDelete frees the child's and the sibling's pages and returns a well-formed
\* internal node of one key fewer in which a newly allocated merged page replaces
\* the pair; a right merge never yields an all-zero parent.
C18_MergeSplice ==
    (/\ Returned("Delete")
     /\ Last.res = "found"
     /\ pre.root # 0
     /\ btype(StoreGet(pre, pre.root)) = BNODE_NODE)
    => MergeSplicedAt(StoreGet(pre, pre.root),
                      nodeLookupLE(StoreGet(pre, pre.root), KeyBytes(Last.key)),
                      KeyBytes(Last.key))

\* the key is found under the child whose page ID is the pointer at slot idx of node
FoundUnderPtr(t, node, idx, key) ==
    Len(treeDelete(t, StoreGet(t, getPtr(node, idx)), key).node) > 0

\* C19 (delete descent): at an internal node nodeDelete recurses into the page
\* whose ID is the child pointer stored at slot idx, never into the page whose ID
\* is idx: Delete at an internal root reports the key absent exactly when the
\* subtree under that child pointer does not hold it.
C19_DeleteDescent ==
    (/\ Returned("Delete")
     /\ pre.root # 0
     /\ btype(StoreGet(pre, pre.root)) = BNODE_NODE)
    => (Last.res = "absent"
        <=> ~FoundUnderPtr(pre, StoreGet(pre, pre.root),
                           nodeLookupLE(StoreGet(pre, pre.root), KeyBytes(Last.key)),
                           KeyBytes(Last.key)))

\* C20 (64-bit child pointers): a page ID p stored as child pointer i of a node
\* and read back with getPtr(i) is p, for every page ID the store can return and
\* every slot i below nkeys; nothing is lost modulo 2^16.
C20_PtrRoundTrip ==
    (call.f = "setPtr" /\ ret # None) => ret.ptr = call.p

====
